---- MODULE Spec2Model ----
(***************************************************************************)
(* Model of drivers/soc/qcom/ramdump.c: one ramdump device, one producer   *)
(* (the caller of do_ramdump / do_elf_ramdump / do_minidump /              *)
(* do_minidump_elf32, serialized by its caller) and the consumer files     *)
(* that open, read and close the device node.                              *)
(*                                                                         *)
(* ramdump_read does not take consumer_lock: its accesses to the device    *)
(* are steps of their own, and so are the stores the producer makes        *)
(* between taking and releasing consumer_lock that a reader can tell       *)
(* apart.                                                                  *)
(*                                                                         *)
(* The stream cursor pos[h] is the loff_t the caller hands to read(): the  *)
(* caller passes the cursor the previous call left.                        *)
(***************************************************************************)
EXTENDS Integers, Sequences, FiniteSets, TLC

\* ------------------------------------------------------------------ bounds
MaxHandles == 2
MaxSessions == 1
MaxSessionsTwo == 2
MaxUnderflow == 1
MaxCallers == 2
MaxMinors == 2

Handles == 1..MaxHandles

\* ------------------------------------------------------- program constants
EAGAIN == 11
ENOMEM == 12
EFAULT == 14
EPIPE == 32
ETIME == 62
ERESTARTSYS == 512
MAX_IOREMAP_SIZE == 1048576
MAX_STRTBL_SIZE == 512
MAX_NAME_LENGTH == 16
SizeofElf32Ehdr == 52
SizeofElf32Phdr == 32
SizeofElfhdr == 64
SizeofElfShdr == 64

\* ------------------------------------------------------------------ inputs
\* struct ramdump_segment: address, size, v_address (TRUE: the caller mapped it)
Seg(a, s, v) == [address |-> a, size |-> s, v_address |-> v]

SegTables ==
    { << >>,
      << Seg(4096, 500, FALSE) >>,
      << Seg(4096, 500, FALSE), Seg(5120, 300, TRUE) >> }

\* the count argument of read()
Counts == {400, 2000}

\* the exported entry points
Ops == {"do_ramdump", "do_elf_ramdump", "do_minidump_elf32", "do_minidump"}

\* the inputs of a run: how many sessions the producer starts, the entry points
\* it calls, the tables it hands in, the counts the consumers read with
ScnOne == [sessions |-> MaxSessions, ops |-> Ops, tables |-> SegTables,
           counts |-> Counts, dt |-> BOOLEAN]
ScnTwo == [sessions |-> MaxSessionsTwo, ops |-> {"do_ramdump", "do_elf_ramdump"},
           tables |-> { << Seg(4096, 50, FALSE) >> }, counts |-> {84},
           dt |-> {FALSE}]

Min(a, b) == IF a < b THEN a ELSE b

NULL == 0

VARIABLES
    \* struct ramdump_device
    consumer_list, consumers, readers_left, ramdump_status, done, lock,
    nsegments, segments, elfcore_size, elfcore_buf, complete_ramdump,
    abort_ramdump, srcu_held,
    \* struct consumer_entry and the file it belongs to (f_nonblock: O_NONBLOCK
    \* is set in f_flags for the call that is at the readiness check)
    data_ready, f_nonblock, pos,
    \* the producer's call: position, arguments, result
    proPc, proOp, proSegs, proRet, proOutcome, sessionId,
    \* each consumer's call of ramdump_read: position, result
    pc, ret,
    \* history: who was frozen into the session and is still registered, whether
    \* one of them has closed, what each consumer received and how its reads of
    \* the session went, who signalled the completion
    frozen, stayed, got, rstate, from0, lastFin,
    \* the inputs the producer and the consumers draw from
    scn,
    \* the process-wide device-node registry: rd_minor_mutex (its owner),
    \* ramdump_devnode_inited, rd_minor_id (the minors in use); each caller of
    \* create_ramdump_device; how often ramdump_devnode_init has succeeded
    rd_minor_mutex, ramdump_devnode_inited, rd_minor_id, creating, inits,
    \* a call made on its own (poll, or one of the driver's functions taken
    \* alone): its name, its arguments and its result, until the caller took it
    fn

devVars == << consumer_list, consumers, readers_left, ramdump_status, done, lock,
              nsegments, segments, elfcore_size, elfcore_buf, complete_ramdump,
              abort_ramdump, srcu_held >>
fileVars == << data_ready, f_nonblock, pos >>
proVars == << proPc, proOp, proSegs, proRet, proOutcome, sessionId >>
readVars == << pc, ret >>
histVars == << frozen, stayed, got, rstate, from0, lastFin, scn, fn >>
regVars == << rd_minor_mutex, ramdump_devnode_inited, rd_minor_id, creating, inits >>
vars == << devVars, fileVars, proVars, readVars, histVars, regVars >>

\* ----------------------------------------------------------------- helpers
\* _do_ramdump: segments[i].size = segments[i + 1].address - segments[i].address
\* for i < nsegments - 1; the last size is left as given
Compact(segs) ==
    [i \in 1..Len(segs) |->
        IF i < Len(segs)
        THEN [segs[i] EXCEPT !.size = segs[i + 1].address - segs[i].address]
        ELSE segs[i]]

UseElf(op) == op \in {"do_elf_ramdump", "do_minidump_elf32"}
IsMinidump(op) == op = "do_minidump"
\* the complete_ramdump argument each entry point passes to _do_ramdump
\* faulty variant: the sizes are rewritten on every call
CompleteArg_Always(op, dt) == TRUE

\* do_ramdump and do_elf_ramdump pass rd_dev->complete_ramdump (dt),
\* do_minidump_elf32 passes false, _do_minidump has no such step
CompleteArg(op, dt) == op \in {"do_ramdump", "do_elf_ramdump"} /\ dt

WantCompaction(op) == CompleteArg(op, complete_ramdump)

\* the caller's segment array as _do_ramdump leaves it
SegsAfterCompaction(op, segs) == IF WantCompaction(op) THEN Compact(segs) ELSE segs

\* the size of the header buffer each entry point allocates
ElfHeaderSize(n) == SizeofElf32Ehdr + SizeofElf32Phdr * n
MinidumpHeaderSize(n) == SizeofElfhdr + SizeofElfShdr * (n + 2) + MAX_STRTBL_SIZE
NeedsHeader(op) == UseElf(op) \/ IsMinidump(op)
HeaderSize(op, n) == IF IsMinidump(op) THEN MinidumpHeaderSize(n) ELSE ElfHeaderSize(n)

\* faulty variant: the scan stays in a segment one byte too long
RECURSIVE OT_Scan_Late(_, _, _, _)
OT_Scan_Late(user_offset, segs, n, i) ==
    IF i <= n /\ user_offset > segs[i].size
    THEN OT_Scan_Late(user_offset - segs[i].size, segs, n, i + 1)
    ELSE [i |-> i, user_offset |-> user_offset]

\* offset_translate: the linear scan, then address and data_left
RECURSIVE OT_Scan(_, _, _, _)
OT_Scan(user_offset, segs, n, i) ==
    IF i <= n /\ user_offset >= segs[i].size
    THEN OT_Scan(user_offset - segs[i].size, segs, n, i + 1)
    ELSE [i |-> i, user_offset |-> user_offset]

offset_translate(user_offset, segs, n) ==
    LET r == OT_Scan(user_offset, segs, n, 1) IN
    IF r.i = n + 1
    THEN [addr |-> 0, data_left |-> 0, vaddr |-> FALSE]
    ELSE [addr |-> segs[r.i].address + r.user_offset,
          data_left |-> segs[r.i].size - r.user_offset,
          vaddr |-> segs[r.i].v_address]

\* what a chunk of delivered bytes is: bytes [from, from + len) of header buffer
\* `id`, or the len bytes of physical memory at address `from`
HdrChunk(id, from, len) == << "hdr", id, from, len >>
MemChunk(addr, len) == << "mem", 0, addr, len >>

\* ----------------------------------------------------------- initial state
\* create_ramdump_device: kzalloc'ed device, empty consumer list,
\* readers_left = 0, complete_ramdump from the device tree
InitDevice ==
    /\ consumer_list = {}
    /\ consumers = 0
    /\ readers_left = 0
    /\ ramdump_status = 0
    /\ done = 0
    /\ lock = "free"
    /\ nsegments = 0
    /\ segments = << >>
    /\ elfcore_size = 0
    /\ elfcore_buf = NULL
    /\ complete_ramdump \in scn.dt
    /\ abort_ramdump = FALSE
    /\ srcu_held = 0
    /\ data_ready = [h \in Handles |-> FALSE]
    /\ f_nonblock = [h \in Handles |-> FALSE]
    /\ pos = [h \in Handles |-> 0]
    /\ proPc = "idle"
    /\ proOp = "none"
    /\ proSegs = << >>
    /\ proRet = 0
    /\ proOutcome = "none"
    /\ sessionId = 0
    /\ pc = [h \in Handles |-> "closed"]
    /\ ret = [h \in Handles |-> 0]
    /\ frozen = {}
    /\ stayed = TRUE
    /\ got = [h \in Handles |-> << >>]
    /\ rstate = [h \in Handles |-> "none"]
    /\ from0 = [h \in Handles |-> FALSE]
    /\ lastFin = "none"

\* no call made on its own is pending
NoCall == [name |-> "none"]

\* the callers of create_ramdump_device, and the minors ida_simple_get hands
\* out (0 .. RAMDUMP_NUM_DEVICES - 1 in the source)
Callers == 1..MaxCallers
Minors == 0..(MaxMinors - 1)

\* rd_minor_mutex has no owner
NoOwner == 0

\* a caller that is not inside create_ramdump_device
NotCreating == [pc |-> "idle", minor |-> 0 - 1, ret |-> "none"]

\* the statics of the file before the first create_ramdump_device
InitRegistry ==
    /\ rd_minor_mutex = NoOwner
    /\ ramdump_devnode_inited = FALSE
    /\ rd_minor_id = {}
    /\ creating = [c \in Callers |-> NotCreating]
    /\ inits = 0

\* the statics once create_ramdump_device has returned the device the
\* consumers and the producer work on
Registered ==
    /\ rd_minor_mutex = NoOwner
    /\ ramdump_devnode_inited = TRUE
    /\ rd_minor_id = {0}
    /\ creating = [c \in Callers |-> NotCreating]
    /\ inits = 1

Init == scn = ScnOne /\ fn = NoCall /\ InitDevice /\ Registered

InitTwo == scn = ScnTwo /\ fn = NoCall /\ InitDevice /\ Registered

\* ------------------------------------------------------------ open, close
\* the entry a new open allocates: the free one with the lowest number
FreshEntry(h) == pc[h] = "closed" /\ \A g \in Handles : g < h => pc[g] # "closed"

\* faulty variant: a new entry starts with data_ready set
OpenedReady_True == TRUE

\* the entry is kzalloc'ed: data_ready starts false
OpenedReady == FALSE

\* ramdump_open, under consumer_lock
ramdump_open(h) ==
    /\ FreshEntry(h)
    /\ lock = "free"
    /\ consumers' = consumers + 1
    /\ ramdump_status' = 0
    /\ consumer_list' = consumer_list \cup {h}
    /\ data_ready' = [data_ready EXCEPT ![h] = OpenedReady]
    /\ pos' = [pos EXCEPT ![h] = 0]
    /\ pc' = [pc EXCEPT ![h] = "idle"]
    /\ UNCHANGED << readers_left, done, lock, nsegments, segments, elfcore_size,
                    elfcore_buf, complete_ramdump, abort_ramdump, srcu_held,
                    f_nonblock, proVars, ret, histVars, regVars >>

\* faulty variant: the count goes down by two
DecReaders_Twice(rl) == rl - 2

\* atomic_dec_return(&readers_left) == 0 -> complete()
DecReaders(rl) == rl - 1
CompleteIfZero(rl, d) == IF rl = 0 THEN d + 1 ELSE d

\* ramdump_release, under consumer_lock: reset_ramdump_entry only if the entry
\* is still data_ready
ReleaseResets(h) == data_ready[h]

ramdump_release(h) ==
    /\ pc[h] = "idle"
    /\ lock = "free"
    /\ IF ReleaseResets(h)
       THEN /\ readers_left' = DecReaders(readers_left)
            /\ done' = CompleteIfZero(readers_left', done)
            /\ lastFin' = IF readers_left' = 0 THEN "close" ELSE lastFin
       ELSE UNCHANGED << readers_left, done, lastFin >>
    /\ consumers' = consumers - 1
    /\ consumer_list' = consumer_list \ {h}
    /\ data_ready' = [data_ready EXCEPT ![h] = FALSE]
    /\ pos' = [pos EXCEPT ![h] = 0]
    /\ pc' = [pc EXCEPT ![h] = "closed"]
    /\ frozen' = frozen \ {h}
    /\ stayed' = (stayed /\ h \notin frozen)
    /\ got' = [got EXCEPT ![h] = << >>]
    /\ rstate' = [rstate EXCEPT ![h] = "none"]
    /\ from0' = [from0 EXCEPT ![h] = FALSE]
    /\ UNCHANGED << ramdump_status, lock, nsegments, segments, elfcore_size,
                    elfcore_buf, complete_ramdump, abort_ramdump, srcu_held,
                    f_nonblock, proVars, ret, scn, fn, regVars >>

\* ------------------------------------------------------------ ramdump_read
\* stop the model before readers_left runs away below zero
CallAllowed == readers_left > 0 - MaxUnderflow

\* wait_event_interruptible(dump_wait_q, entry->data_ready || abort_ramdump)
WaitCondition(h) == data_ready[h] \/ abort_ramdump

\* faulty variant: a non-blocking read goes on to the wait once the device is
\* aborted
WouldBlock_UnlessAborted(h, nb) == nb /\ ~data_ready[h] /\ ~abort_ramdump

\* if ((filep->f_flags & O_NONBLOCK) && !entry->data_ready) return -EAGAIN
WouldBlock(h, nb) == nb /\ ~data_ready[h]

\* a read() call returns r before it took the read-side lock: the caller sees
\* the result at pc[h] = "ret"
ReadReturn(h, r) ==
    /\ pc' = [pc EXCEPT ![h] = "ret"]
    /\ ret' = [ret EXCEPT ![h] = r]

\* read() with O_NONBLOCK set (nb) or clear in f_flags: the O_NONBLOCK early
\* return; else the wait.  A caller sleeping in wait_event_interruptible has
\* changed nothing and can leave on a signal at any moment, so a sleeping
\* caller is one that has not passed the wait yet: the call proceeds when the
\* wait condition holds.  The count argument is not looked at before the copy
\* and is drawn there.
ReadCall(h, nb) ==
    /\ pc[h] = "idle"
    /\ CallAllowed
    /\ f_nonblock' = [f_nonblock EXCEPT ![h] = nb]
    /\ IF WouldBlock(h, nb)
       THEN ReadReturn(h, 0 - EAGAIN)
       ELSE /\ WaitCondition(h)
            /\ pc' = [pc EXCEPT ![h] = "woken"]
            /\ UNCHANGED ret
    /\ UNCHANGED << devVars, data_ready, pos, proVars, histVars, regVars >>

\* a signal ends the wait: wait_event_interruptible returns -ERESTARTSYS
ReadInterrupted(h) ==
    /\ pc[h] = "idle"
    /\ CallAllowed
    /\ ~WaitCondition(h)
    /\ ReadReturn(h, 0 - ERESTARTSYS)
    /\ UNCHANGED << devVars, fileVars, proVars, histVars, regVars >>

\* the caller has taken the result of a read() that returned early
ReadReturned(h) ==
    /\ pc[h] = "ret"
    /\ pc' = [pc EXCEPT ![h] = "idle"]
    /\ ret' = [ret EXCEPT ![h] = 0]
    /\ f_nonblock' = [f_nonblock EXCEPT ![h] = FALSE]
    /\ UNCHANGED << devVars, data_ready, pos, proVars, histVars, regVars >>

\* faulty variant: a failed status is taken for an abort as well
SeesAbort_OrFailed == abort_ramdump \/ ramdump_status # 0

\* if (rd_dev->abort_ramdump) after srcu_read_lock
SeesAbort == abort_ramdump

\* what the history records of a read that returned r
AfterReturn(st, r) ==
    IF st \in {"ready", "part"}
    THEN (IF r > 0 THEN "part" ELSE IF r = 0 THEN "eof" ELSE "bad")
    ELSE st

\* srcu_read_lock, abort seen: status = -1, ret = -ETIME, goto ramdump_done
\* (srcu_read_unlock, *pos = 0); reset_ramdump_entry follows in two steps
ReadAborted(h) ==
    /\ pc[h] = "woken"
    /\ SeesAbort
    /\ ramdump_status' = 0 - 1
    /\ ret' = [ret EXCEPT ![h] = 0 - ETIME]
    /\ pos' = [pos EXCEPT ![h] = 0]
    /\ pc' = [pc EXCEPT ![h] = "reset"]
    /\ f_nonblock' = [f_nonblock EXCEPT ![h] = FALSE]
    /\ UNCHANGED << consumer_list, consumers, readers_left, done, lock, nsegments,
                    segments, elfcore_size, elfcore_buf, complete_ramdump,
                    abort_ramdump, srcu_held, data_ready, proVars, histVars, regVars >>

\* srcu_read_lock, abort not seen: the reader is inside the read-side critical
\* section and goes on to copy
ReadEnter(h) ==
    /\ pc[h] = "woken"
    /\ ~SeesAbort
    /\ srcu_held' = srcu_held + 1
    /\ pc' = [pc EXCEPT ![h] = "cs"]
    /\ f_nonblock' = [f_nonblock EXCEPT ![h] = FALSE]
    /\ UNCHANGED << consumer_list, consumers, readers_left, ramdump_status, done,
                    lock, nsegments, segments, elfcore_size, elfcore_buf,
                    complete_ramdump, abort_ramdump, data_ready, pos, proVars,
                    ret, histVars, regVars >>

\* the header part of a read: copy_size = min(elfcore_size - *pos, count)
HdrPart(h, cnt) == IF pos[h] < elfcore_size THEN Min(elfcore_size - pos[h], cnt) ELSE 0
PosAfterHdr(h, cnt) == pos[h] + HdrPart(h, cnt)
CountAfterHdr(h, cnt) == cnt - HdrPart(h, cnt)

\* the segment part: offset_translate(*pos - elfcore_size, ...), then
\* copy_size = min(count, MAX_IOREMAP_SIZE, data_left)
Translated(h, cnt, segs) == offset_translate(PosAfterHdr(h, cnt) - elfcore_size, segs, nsegments)
CopySize(h, cnt, segs) ==
    Min(Min(CountAfterHdr(h, cnt), MAX_IOREMAP_SIZE), Translated(h, cnt, segs).data_left)

\* every table the producer may hand in, as given or compacted
AllTables == scn.tables \cup { Compact(t) : t \in scn.tables }

\* the segment array rd_dev->segments points to belongs to the producer's caller:
\* once the producer has returned its contents are whatever the caller made of it
SeenSegments ==
    IF proPc = "idle"
    THEN { t \in AllTables \cup {segments} : Len(t) = nsegments }
    ELSE { segments }

\* the read continues past the header part
PastHeader(h, cnt) ==
    HdrPart(h, cnt) = 0 \/ (elfcore_buf # NULL /\ CountAfterHdr(h, cnt) > 0)

\* the bytes received so far and one more chunk, adjacent ranges joined
Joined(seq, c) ==
    IF /\ Len(seq) > 0
       /\ seq[Len(seq)][1] = c[1]
       /\ seq[Len(seq)][2] = c[2]
       /\ seq[Len(seq)][3] + seq[Len(seq)][4] = c[3]
    THEN [seq EXCEPT ![Len(seq)] = << c[1], c[2], seq[Len(seq)][3], seq[Len(seq)][4] + c[4] >>]
    ELSE Append(seq, c)

RECURSIVE JoinAll(_, _)
JoinAll(seq, chunks) ==
    IF chunks = << >> THEN seq ELSE JoinAll(Joined(seq, Head(chunks)), Tail(chunks))

\* what the history keeps of a consumer's bytes: nothing more once its reads of
\* the session ended
Delivered(h, chunks) ==
    IF rstate[h] \in {"eof", "bad"} THEN got[h] ELSE JoinAll(got[h], chunks)
Kept(h, st) == IF st = "bad" THEN << >> ELSE got[h]

\* faulty variant: the read-side lock is not released
SrcuUnlock_Skipped(held) == held

\* srcu_read_unlock(&rd_dev->rd_srcu, srcu_idx)
SrcuUnlock(held) == held - 1

\* goto ramdump_done with ret = r: srcu_read_unlock, *pos = 0
GotoDone(h, r) ==
    /\ ret' = [ret EXCEPT ![h] = r]
    /\ pos' = [pos EXCEPT ![h] = 0]
    /\ pc' = [pc EXCEPT ![h] = "reset"]
    /\ srcu_held' = SrcuUnlock(srcu_held)
    /\ UNCHANGED << consumer_list, consumers, readers_left, done, lock, nsegments,
                    segments, elfcore_size, elfcore_buf, complete_ramdump,
                    abort_ramdump, data_ready, f_nonblock, proVars, histVars, regVars >>

\* copy_to_user of header bytes from a NULL elfcore_buf: the kernel faults in the
\* reader's context and the reader dies inside the critical section
ReadHdrOops(h, cnt) ==
    /\ pc[h] = "cs"
    /\ HdrPart(h, cnt) > 0
    /\ elfcore_buf = NULL
    /\ pc' = [pc EXCEPT ![h] = "oops"]
    /\ rstate' = [rstate EXCEPT ![h] = "bad"]
    /\ got' = [got EXCEPT ![h] = << >>]
    /\ UNCHANGED << devVars, fileVars, proVars, ret, frozen, stayed, from0,
                    lastFin, scn, fn, regVars >>

\* the status a failed header copy leaves: line 192 sets only ret
StatusAfterHdrFault == ramdump_status

\* copy_to_user of the header bytes fails: ret = -EFAULT, goto ramdump_done
ReadHdrFault(h, cnt) ==
    /\ pc[h] = "cs"
    /\ HdrPart(h, cnt) > 0
    /\ elfcore_buf # NULL
    /\ ramdump_status' = StatusAfterHdrFault
    /\ GotoDone(h, 0 - EFAULT)

\* a read() that copied bytes returns r = *pos - orig_pos
ReadDelivers(h, newpos, chunks) ==
    /\ pos' = [pos EXCEPT ![h] = newpos]
    /\ pc' = [pc EXCEPT ![h] = "idle"]
    /\ srcu_held' = SrcuUnlock(srcu_held)
    /\ got' = [got EXCEPT ![h] = Delivered(h, chunks)]
    /\ rstate' = [rstate EXCEPT ![h] = AfterReturn(rstate[h], newpos - pos[h])]
    /\ UNCHANGED << consumer_list, consumers, readers_left, ramdump_status, done,
                    lock, nsegments, segments, elfcore_size, elfcore_buf,
                    complete_ramdump, abort_ramdump, data_ready, f_nonblock,
                    proVars, ret, frozen, stayed, from0, lastFin, scn, fn, regVars >>

\* the header part used up count: srcu_read_unlock, return copy_size
ReadHdrOnly(h, cnt) ==
    /\ pc[h] = "cs"
    /\ HdrPart(h, cnt) > 0
    /\ elfcore_buf # NULL
    /\ CountAfterHdr(h, cnt) = 0
    /\ ReadDelivers(h, PosAfterHdr(h, cnt), << HdrChunk(elfcore_buf, pos[h], HdrPart(h, cnt)) >>)

\* EOF check: data_left == 0 -> status = 0, ret = 0, goto ramdump_done
ReadEof(h, cnt) ==
    /\ pc[h] = "cs"
    /\ PastHeader(h, cnt)
    /\ \E segs \in SeenSegments : Translated(h, cnt, segs).data_left = 0
    /\ ramdump_status' = 0
    /\ GotoDone(h, 0)

\* dma_remap or vzalloc fails: status = -1, ret = -ENOMEM, goto ramdump_done
ReadMapFail(h, cnt) ==
    /\ pc[h] = "cs"
    /\ PastHeader(h, cnt)
    /\ \E segs \in SeenSegments : Translated(h, cnt, segs).data_left > 0
    /\ ramdump_status' = 0 - 1
    /\ GotoDone(h, 0 - ENOMEM)

\* copy_to_user of the segment bytes fails: status = -1, ret = -EFAULT
ReadSegFault(h, cnt) ==
    /\ pc[h] = "cs"
    /\ PastHeader(h, cnt)
    /\ \E segs \in SeenSegments : Translated(h, cnt, segs).data_left > 0
    /\ ramdump_status' = 0 - 1
    /\ GotoDone(h, 0 - EFAULT)

\* the chunks a successful read hands to the caller
ChunksOf(h, cnt, segs) ==
    (IF HdrPart(h, cnt) > 0 THEN << HdrChunk(elfcore_buf, pos[h], HdrPart(h, cnt)) >> ELSE << >>)
    \o << MemChunk(Translated(h, cnt, segs).addr, CopySize(h, cnt, segs)) >>

\* the segment bytes are copied: *pos += copy_size, return *pos - orig_pos
ReadCopy(h, cnt) ==
    /\ pc[h] = "cs"
    /\ PastHeader(h, cnt)
    /\ \E segs \in SeenSegments :
          /\ Translated(h, cnt, segs).data_left > 0
          /\ ReadDelivers(h, PosAfterHdr(h, cnt) + CopySize(h, cnt, segs), ChunksOf(h, cnt, segs))

\* reset_ramdump_entry, first half: entry->data_ready = false
ReadReset(h) ==
    /\ pc[h] = "reset"
    /\ data_ready' = [data_ready EXCEPT ![h] = FALSE]
    /\ pc' = [pc EXCEPT ![h] = "dec"]
    /\ UNCHANGED << devVars, f_nonblock, pos, proVars, ret, histVars, regVars >>

\* reset_ramdump_entry, second half: atomic_dec_return and complete(); then
\* ramdump_read returns ret
ReadDec(h) ==
    /\ pc[h] = "dec"
    /\ readers_left' = DecReaders(readers_left)
    /\ done' = CompleteIfZero(readers_left', done)
    /\ lastFin' = IF readers_left' = 0
                  THEN (IF ret[h] = 0 THEN "eof" ELSE "error")
                  ELSE lastFin
    /\ pc' = [pc EXCEPT ![h] = "idle"]
    /\ ret' = [ret EXCEPT ![h] = 0]
    /\ rstate' = [rstate EXCEPT ![h] = AfterReturn(rstate[h], ret[h])]
    /\ got' = [got EXCEPT ![h] = Kept(h, rstate'[h])]
    /\ UNCHANGED << consumer_list, consumers, ramdump_status, lock, nsegments,
                    segments, elfcore_size, elfcore_buf, complete_ramdump,
                    abort_ramdump, srcu_held, fileVars, proVars,
                    frozen, stayed, from0, scn, fn, regVars >>

\* ------------------------------------------------- _do_ramdump, _do_minidump
\* faulty variant: the test never finds the device without consumers
NoConsumers_Never == consumers < 0

\* if (!rd_dev->consumers)
NoConsumers == consumers = 0

\* the producer's call returns r
Return(r, outcome) ==
    /\ proPc' = "ret"
    /\ proRet' = r
    /\ proOutcome' = outcome

\* mutex_lock; no consumers: mutex_unlock, return -EPIPE
DumpNoConsumers(op, segs) ==
    /\ proPc = "idle"
    /\ lock = "free"
    /\ NoConsumers
    /\ Return(0 - EPIPE, "NoConsumers")
    /\ proOp' = op
    /\ proSegs' = segs
    /\ UNCHANGED << devVars, fileVars, sessionId, readVars, histVars, regVars >>

\* rd_dev->elfcore_size and rd_dev->elfcore_buf as the header set-up leaves them
SizeInstalled(op, n) == IF NeedsHeader(op) THEN HeaderSize(op, n) ELSE elfcore_size
BufInstalled(op, id) == IF NeedsHeader(op) THEN id ELSE elfcore_buf

\* mutex_lock; consumers present; segments installed; kzalloc of the header
\* fails: mutex_unlock, return -ENOMEM
DumpNoMem(op, segs) ==
    /\ proPc = "idle"
    /\ lock = "free"
    /\ ~NoConsumers
    /\ NeedsHeader(op)
    /\ segments' = SegsAfterCompaction(op, segs)
    /\ nsegments' = Len(segs)
    /\ elfcore_size' = SizeInstalled(op, Len(segs))
    /\ elfcore_buf' = NULL
    /\ Return(0 - ENOMEM, "NoMem")
    /\ proOp' = op
    /\ proSegs' = segs
    /\ UNCHANGED << consumer_list, consumers, readers_left, ramdump_status, done,
                    lock, complete_ramdump, abort_ramdump, srcu_held, fileVars,
                    sessionId, readVars, histVars, regVars >>

\* mutex_lock; consumers present; segments installed; header built.  The lock
\* stays held.
DumpBegin(op, segs) ==
    /\ proPc = "idle"
    /\ lock = "free"
    /\ ~NoConsumers
    /\ sessionId < scn.sessions
    /\ sessionId' = sessionId + 1
    /\ lock' = "producer"
    /\ segments' = SegsAfterCompaction(op, segs)
    /\ nsegments' = Len(segs)
    /\ elfcore_size' = SizeInstalled(op, Len(segs))
    /\ elfcore_buf' = BufInstalled(op, sessionId')
    /\ proPc' = "mark"
    /\ proOp' = op
    /\ proSegs' = segs
    /\ UNCHANGED << consumer_list, consumers, readers_left, ramdump_status, done,
                    complete_ramdump, abort_ramdump, srcu_held, fileVars, proRet,
                    proOutcome, readVars, histVars, regVars >>

\* list_for_each_entry(...) entry->data_ready = true
MarkedReady == [h \in Handles |-> IF h \in consumer_list THEN TRUE ELSE data_ready[h]]

DumpMark ==
    /\ proPc = "mark"
    /\ data_ready' = MarkedReady
    /\ proPc' = "flags"
    /\ frozen' = consumer_list
    /\ stayed' = TRUE
    /\ got' = [h \in Handles |-> << >>]
    /\ rstate' = [h \in Handles |->
                    IF h \in consumer_list
                    THEN (IF pc[h] \in {"idle", "ret"} THEN "ready" ELSE "bad")
                    ELSE "none"]
    /\ from0' = [h \in Handles |-> h \in consumer_list /\ pos[h] = 0]
    /\ lastFin' = "none"
    /\ UNCHANGED << devVars, f_nonblock, pos, proOp, proSegs, proRet, proOutcome,
                    sessionId, readVars, scn, fn, regVars >>

\* rd_dev->ramdump_status = -1; rd_dev->abort_ramdump = false
DumpFlags ==
    /\ proPc = "flags"
    /\ ramdump_status' = 0 - 1
    /\ abort_ramdump' = FALSE
    /\ proPc' = "reinit"
    /\ UNCHANGED << consumer_list, consumers, readers_left, done, lock, nsegments,
                    segments, elfcore_size, elfcore_buf, complete_ramdump,
                    srcu_held, fileVars, proOp, proSegs, proRet, proOutcome,
                    sessionId, readVars, histVars, regVars >>

\* reinit_completion(&rd_dev->ramdump_complete)
DumpReinit ==
    /\ proPc = "reinit"
    /\ done' = 0
    /\ proPc' = "setcnt"
    /\ UNCHANGED << consumer_list, consumers, readers_left, ramdump_status, lock,
                    nsegments, segments, elfcore_size, elfcore_buf,
                    complete_ramdump, abort_ramdump, srcu_held, fileVars, proOp,
                    proSegs, proRet, proOutcome, sessionId, readVars, histVars, regVars >>

\* atomic_set(&rd_dev->readers_left, rd_dev->consumers)
ReadersAtStart == consumers

\* faulty variant: the producer keeps consumer_lock while it waits
Unlocked_Kept == "producer"

\* mutex_unlock(&rd_dev->consumer_lock)
Unlocked == "free"

\* atomic_set, wake_up, mutex_unlock
DumpSetCount ==
    /\ proPc = "setcnt"
    /\ readers_left' = ReadersAtStart
    /\ lock' = Unlocked
    /\ proPc' = "wait"
    /\ UNCHANGED << consumer_list, consumers, ramdump_status, done, nsegments,
                    segments, elfcore_size, elfcore_buf, complete_ramdump,
                    abort_ramdump, srcu_held, fileVars, proOp, proSegs, proRet,
                    proOutcome, sessionId, readVars, histVars, regVars >>

\* rd_dev->elfcore_size = 0; kfree(rd_dev->elfcore_buf); rd_dev->elfcore_buf = NULL
FreeHeader ==
    /\ elfcore_size' = 0
    /\ elfcore_buf' = NULL

\* ret = (rd_dev->ramdump_status == 0) ? 0 : -EPIPE
ResultOfStatus == IF ramdump_status = 0 THEN 0 ELSE 0 - EPIPE

\* wait_for_completion_timeout returns non-zero: result from the status, header
\* freed, return
DumpComplete ==
    /\ proPc = "wait"
    /\ done > 0
    /\ done' = done - 1
    /\ FreeHeader
    /\ Return(ResultOfStatus, IF ResultOfStatus = 0 THEN "Ok" ELSE "Failed")
    /\ UNCHANGED << consumer_list, consumers, readers_left, ramdump_status, lock,
                    nsegments, segments, complete_ramdump, abort_ramdump,
                    srcu_held, fileVars, proOp, proSegs, sessionId, readVars,
                    histVars, regVars >>

\* wait_for_completion_timeout returns 0: ret = -EPIPE, abort_ramdump = true
DumpTimeout ==
    /\ proPc = "wait"
    /\ done = 0
    /\ abort_ramdump' = TRUE
    /\ proPc' = "sync"
    /\ UNCHANGED << consumer_list, consumers, readers_left, ramdump_status, done,
                    lock, nsegments, segments, elfcore_size, elfcore_buf,
                    complete_ramdump, srcu_held, fileVars, proOp, proSegs, proRet,
                    proOutcome, sessionId, readVars, histVars, regVars >>

\* faulty variant: synchronize_srcu returns without waiting for the readers
Quiescent_Always == TRUE

\* synchronize_srcu returns once no reader is inside a read-side critical section
Quiescent == srcu_held = 0

\* synchronize_srcu has returned: header freed, return -EPIPE
DumpSyncDone ==
    /\ proPc = "sync"
    /\ Quiescent
    /\ FreeHeader
    /\ Return(0 - EPIPE, "TimedOut")
    /\ UNCHANGED << consumer_list, consumers, readers_left, ramdump_status, done,
                    lock, nsegments, segments, complete_ramdump, abort_ramdump,
                    srcu_held, fileVars, proOp, proSegs, sessionId, readVars,
                    histVars, regVars >>

\* the producer's caller has taken the result
DumpReturned ==
    /\ proPc = "ret"
    /\ proPc' = "idle"
    /\ proOp' = "none"
    /\ proSegs' = << >>
    /\ proRet' = 0
    /\ proOutcome' = "none"
    /\ frozen' = {}
    /\ stayed' = TRUE
    /\ got' = [h \in Handles |-> << >>]
    /\ rstate' = [h \in Handles |-> "none"]
    /\ from0' = [h \in Handles |-> FALSE]
    /\ lastFin' = "none"
    /\ UNCHANGED << devVars, fileVars, sessionId, readVars, scn, fn, regVars >>

\* ------------------------------------------------------------ the system
\* a returned call is taken by its caller, and a synchronize_srcu that has
\* nobody to wait for returns, before anything else happens
Running ==
    /\ fn = NoCall
    /\ proPc # "ret"
    /\ ~(proPc = "sync" /\ Quiescent)
    /\ \A h \in Handles : pc[h] # "ret"

Next ==
    \/ Running /\ \E h \in Handles : ramdump_open(h)
    \/ Running /\ \E h \in Handles : ramdump_release(h)
    \/ Running /\ \E h \in Handles, nb \in BOOLEAN : ReadCall(h, nb)
    \/ Running /\ \E h \in Handles : ReadInterrupted(h)
    \/ \E h \in Handles : ReadReturned(h)
    \/ Running /\ \E h \in Handles : ReadAborted(h)
    \/ Running /\ \E h \in Handles : ReadEnter(h)
    \/ Running /\ \E h \in Handles, cnt \in scn.counts : ReadHdrOops(h, cnt)
    \/ Running /\ \E h \in Handles, cnt \in scn.counts : ReadHdrFault(h, cnt)
    \/ Running /\ \E h \in Handles, cnt \in scn.counts : ReadHdrOnly(h, cnt)
    \/ Running /\ \E h \in Handles, cnt \in scn.counts : ReadEof(h, cnt)
    \/ Running /\ \E h \in Handles, cnt \in scn.counts : ReadMapFail(h, cnt)
    \/ Running /\ \E h \in Handles, cnt \in scn.counts : ReadSegFault(h, cnt)
    \/ Running /\ \E h \in Handles, cnt \in scn.counts : ReadCopy(h, cnt)
    \/ Running /\ \E h \in Handles : ReadReset(h)
    \/ Running /\ \E h \in Handles : ReadDec(h)
    \/ Running /\ \E op \in scn.ops, segs \in scn.tables : DumpNoConsumers(op, segs)
    \/ Running /\ \E op \in scn.ops, segs \in scn.tables : DumpNoMem(op, segs)
    \/ Running /\ \E op \in scn.ops, segs \in scn.tables : DumpBegin(op, segs)
    \/ Running /\ DumpMark
    \/ Running /\ DumpFlags
    \/ Running /\ DumpReinit
    \/ Running /\ DumpSetCount
    \/ Running /\ DumpComplete
    \/ Running /\ DumpTimeout
    \/ DumpSyncDone
    \/ DumpReturned

Spec == Init /\ [][Next]_vars

SpecTwo == InitTwo /\ [][Next]_vars

\* ------------------------------------------------- functions taken alone
\* the largest stream offset tried
MaxOffset == 35

\* the tables offset_translate is tried on: sizes 10 and 20; nothing; a first
\* segment of size 0; three segments with one of size 0 in the middle
FnTables ==
    { << Seg(4096, 10, FALSE), Seg(8192, 20, FALSE) >>,
      << >>,
      << Seg(4096, 0, FALSE), Seg(8192, 12, FALSE) >>,
      << Seg(4096, 7, FALSE), Seg(8192, 0, FALSE), Seg(12288, 9, FALSE) >> }

FnOffsets == 0..MaxOffset

\* offset_translate called on a table and an offset
FnTranslate(segs, o) ==
    /\ fn = NoCall
    /\ fn' = [name |-> "offset_translate", segs |-> segs, o |-> o,
              out |-> offset_translate(o, segs, Len(segs))]
    /\ UNCHANGED << devVars, fileVars, proVars, readVars, frozen, stayed, got,
                    rstate, from0, lastFin, scn, regVars >>

\* the caller has taken the result of the call made on its own
FnReturned ==
    /\ fn # NoCall
    /\ fn' = NoCall
    /\ UNCHANGED << devVars, fileVars, proVars, readVars, frozen, stayed, got,
                    rstate, from0, lastFin, scn, regVars >>

\* unsigned long is 64 bits wide: a value is its four 16-bit digits, lowest first
Pow16 == 65536
U64(hi, lo) == << lo % Pow16, lo \div Pow16, hi % Pow16, hi \div Pow16 >>
AddU64(a, b) ==
    LET c1 == a[1] + b[1]
        c2 == a[2] + b[2] + (c1 \div Pow16)
        c3 == a[3] + b[3] + (c2 \div Pow16)
        c4 == a[4] + b[4] + (c3 \div Pow16)
    IN << c1 % Pow16, c2 % Pow16, c3 % Pow16, c4 % Pow16 >>

\* an assignment to an Elf32_Off, Elf32_Addr or Elf32_Word keeps the low 32 bits
ToU32(a) == << a[1], a[2], 0, 0 >>

\* a segment name: the characters before the terminator, or a NULL pointer
Name(chars) == [ptr |-> 1, chars |-> chars]
NullName == [ptr |-> NULL, chars |-> << >>]
Chars(len) == [i \in 1..len |-> 65 + (i % 26)]

\* struct ramdump_segment with 64-bit address and size, and its name
Seg64(a, sz, nm) == [address |-> a, size |-> sz, name |-> nm]

\* the length of a long table
ManySegments == 33

\* the tables the headers are built from: small values; nothing; an address and
\* a size that need more than 32 bits; a name of 20 characters; a name of 600
\* characters before a short one; a segment without a name; many segments; a
\* name of 20 characters before a short one
HdrTables ==
    { << Seg64(U64(0, 4096), U64(0, 10), Name(Chars(3))),
         Seg64(U64(0, 8192), U64(0, 20), Name(Chars(20))) >>,
      << >>,
      << Seg64(U64(0, 4096), U64(0, 16), Name(Chars(15))),
         Seg64(U64(0, 8192), U64(0, 12), NullName),
         Seg64(U64(0, 12288), U64(0, 70000), Name(Chars(16))) >>,
      << Seg64(U64(1, 4096), U64(0, 16), Name(Chars(1))),
         Seg64(U64(0, 4096), U64(1, 8), Name(Chars(2))),
         Seg64(U64(0, 100), U64(0, 4), Name(Chars(4))) >>,
      << Seg64(U64(0, 4096), U64(0, 8), Name(Chars(600))),
         Seg64(U64(0, 8192), U64(0, 8), Name(Chars(4))) >>,
      << Seg64(U64(0, 4096), U64(0, 8), Name(Chars(20))),
         Seg64(U64(0, 8192), U64(0, 8), Name(Chars(5))) >>,
      [i \in 1..ManySegments |-> Seg64(U64(0, 4096 * i), U64(0, 8), Name(Chars(15)))] }

\* _do_ramdump, the program headers: one per segment, the file offset running
RECURSIVE Phdrs(_, _, _)
Phdrs(segs, i, offset) ==
    IF i > Len(segs) THEN << >>
    ELSE LET phdr == [p_type |-> "PT_LOAD",
                      p_offset |-> ToU32(offset),
                      p_vaddr |-> ToU32(segs[i].address),
                      p_paddr |-> ToU32(segs[i].address),
                      p_filesz |-> ToU32(segs[i].size),
                      p_memsz |-> ToU32(segs[i].size),
                      p_flags |-> {"PF_R", "PF_W", "PF_X"}]
         IN << phdr >> \o Phdrs(segs, i + 1, AddU64(offset, phdr.p_filesz))

\* _do_ramdump, the ELF32 header block of a table
ElfHeader(segs) ==
    LET nseg == Len(segs)
        size == SizeofElf32Ehdr + SizeofElf32Phdr * nseg
    IN [elfcore_size |-> size,
        ehdr |-> [e_class |-> "ELFCLASS32", e_type |-> "ET_CORE",
                  e_phoff |-> SizeofElf32Ehdr, e_ehsize |-> SizeofElf32Ehdr,
                  e_phentsize |-> SizeofElf32Phdr, e_phnum |-> nseg % Pow16],
        phdr |-> Phdrs(segs, 1, U64(0, size))]

\* the ELF32 header block built for a table
FnElfHeader(segs) ==
    /\ fn = NoCall
    /\ fn' = [name |-> "_do_ramdump", segs |-> segs, out |-> ElfHeader(segs)]
    /\ UNCHANGED << devVars, fileVars, proVars, readVars, frozen, stayed, got,
                    rstate, from0, lastFin, scn, regVars >>

\* the string table is the last MAX_STRTBL_SIZE bytes of the zeroed header
\* buffer: the bytes written so far by offset, every other byte 0
StrAt(strtab, k) == IF k \in DOMAIN strtab THEN strtab[k] ELSE 0

\* strlcpy(dst + idx, src, size): min(strlen(src), size - 1) characters and a
\* terminator are written; the length of src is returned
Strlcpy(mem, idx, chars, size) ==
    LET m == Min(Len(chars), size - 1)
    IN [k \in DOMAIN mem \cup (idx..(idx + m)) |->
           IF k \in idx..(idx + m - 1) THEN chars[k - idx + 1]
           ELSE IF k = idx + m THEN 0
           ELSE mem[k]]

\* set_section_name: the name goes to strtab + *strtable_idx, which advances
\* by the length strlcpy returns plus one; bytes written at or beyond
\* MAX_STRTBL_SIZE lie outside the header buffer (spill)
set_section_name(name, st) ==
    IF name.ptr = NULL
    THEN [ret |-> 0, st |-> st]
    ELSE LET mem == Strlcpy(st.strtab @@ st.spill, st.strtable_idx, name.chars,
                            MAX_NAME_LENGTH)
         IN [ret |-> st.strtable_idx,
             st |-> [strtab |-> [k \in { j \in DOMAIN mem : j < MAX_STRTBL_SIZE }
                                   |-> mem[k]],
                     spill |-> [k \in { j \in DOMAIN mem : j >= MAX_STRTBL_SIZE }
                                   |-> mem[k]],
                     strtable_idx |-> st.strtable_idx + Len(name.chars) + 1]]

\* faulty variant: the string table is placed after nsegments section headers
StrtblOff_Short(nseg) == SizeofElfhdr + SizeofElfShdr * nseg

\* _do_minidump: strtbl_off
StrtblOff(nseg) == SizeofElfhdr + SizeofElfShdr * (nseg + 2)

\* _do_minidump, the section headers of the segments
RECURSIVE Shdrs(_, _, _, _)
Shdrs(segs, i, offset, st) ==
    IF i > Len(segs) THEN [shdr |-> << >>, st |-> st]
    ELSE LET nm == set_section_name(segs[i].name, st)
             shdr == [sh_type |-> "SHT_PROGBITS",
                      sh_name |-> nm.ret,
                      sh_addr |-> segs[i].address,
                      sh_size |-> segs[i].size,
                      sh_flags |-> {"SHF_WRITE"},
                      sh_offset |-> offset,
                      sh_entsize |-> 0]
             rest == Shdrs(segs, i + 1, AddU64(offset, shdr.sh_size), nm.st)
         IN [shdr |-> << shdr >> \o rest.shdr, st |-> rest.st]

\* a section header of the zeroed buffer
ZeroShdr ==
    [sh_type |-> "SHT_NULL", sh_name |-> 0, sh_addr |-> U64(0, 0),
     sh_size |-> U64(0, 0), sh_flags |-> {}, sh_offset |-> U64(0, 0),
     sh_entsize |-> 0]

\* "STR_TBL"
StrTblName == Name(<< 83, 84, 82, 95, 84, 66, 76 >>)

\* _do_minidump, the header block of a table
MinidumpHeader(segs) ==
    LET nseg == Len(segs)
        size == SizeofElfhdr + SizeofElfShdr * (nseg + 2) + MAX_STRTBL_SIZE
        nm == set_section_name(StrTblName,
                               [strtab |-> << >>, spill |-> << >>,
                                strtable_idx |-> 1])
        strshdr == [sh_type |-> "SHT_STRTAB", sh_name |-> nm.ret,
                    sh_addr |-> U64(0, 0), sh_size |-> U64(0, MAX_STRTBL_SIZE),
                    sh_flags |-> {}, sh_offset |-> U64(0, StrtblOff(nseg)),
                    sh_entsize |-> 0]
        rest == Shdrs(segs, 1, U64(0, size), nm.st)
    IN [elfcore_size |-> size,
        ehdr |-> [e_type |-> "ET_CORE", e_ehsize |-> SizeofElfhdr,
                  e_shoff |-> SizeofElfhdr, e_shentsize |-> SizeofElfShdr,
                  e_shstrndx |-> 1, e_shnum |-> (nseg + 2) % Pow16],
        shdr |-> << ZeroShdr, strshdr >> \o rest.shdr,
        strtab |-> rest.st.strtab,
        spill |-> rest.st.spill]

\* the minidump header block built for a table
FnMinidumpHeader(segs) ==
    /\ fn = NoCall
    /\ fn' = [name |-> "_do_minidump", segs |-> segs, out |-> MinidumpHeader(segs)]
    /\ UNCHANGED << devVars, fileVars, proVars, readVars, frozen, stayed, got,
                    rstate, from0, lastFin, scn, regVars >>

\* the largest chunk length tried
MaxCopy == 20

\* a - b in unsigned long: below zero it wraps around
SubU64(a, b) ==
    LET d1 == a[1] - b[1]
        d2 == a[2] - b[2] - (IF d1 < 0 THEN 1 ELSE 0)
        d3 == a[3] - b[3] - (IF d2 < 0 THEN 1 ELSE 0)
        d4 == a[4] - b[4] - (IF d3 < 0 THEN 1 ELSE 0)
    IN << d1 % Pow16, d2 % Pow16, d3 % Pow16, d4 % Pow16 >>

\* x & 0x7
Low3(x) == x[1] % 8

\* ramdump_read, the copy from device_mem to alignbuf: the bytes up to the next
\* 8-byte boundary by memcpy_fromio, the multiple of 8 after them by memcpy,
\* the rest by memcpy_fromio.  Each phase: where it reads, where in alignbuf
\* it writes, how many bytes.
CopyPhases(device_mem, copy_size) ==
    LET bytes_before == IF Low3(device_mem) # 0 THEN U64(0, 8 - Low3(device_mem))
                        ELSE U64(0, 0)
        mem1 == AddU64(device_mem, bytes_before)
        size1 == SubU64(copy_size, bytes_before)
        bytes_after == U64(0, Low3(size1))
        bulk == SubU64(size1, bytes_after)
    IN [head |-> [src |-> device_mem, dst |-> U64(0, 0), len |-> bytes_before],
        middle |-> [src |-> mem1, dst |-> bytes_before, len |-> bulk],
        tail |-> [src |-> AddU64(mem1, bulk), dst |-> AddU64(bytes_before, bulk),
                  len |-> bytes_after]]

\* the copy of a chunk of copy_size bytes from an address with the low bits a
FnCopy(a, copy_size) ==
    /\ fn = NoCall
    /\ fn' = [name |-> "ramdump_read copy", device_mem |-> U64(0, 4096 + a),
              copy_size |-> copy_size,
              out |-> CopyPhases(U64(0, 4096 + a), U64(0, copy_size))]
    /\ UNCHANGED << devVars, fileVars, proVars, readVars, frozen, stayed, got,
                    rstate, from0, lastFin, scn, regVars >>

\* ramdump_read, the sizes of one call at cursor p with count cnt on a header
\* of size bytes and a table: the header part, what is left of the count, the
\* translation, the segment part and the value returned on the paths without
\* a fault
ReadSizes(p, cnt, size, segs) ==
    LET hdr == IF p < size THEN Min(size - p, cnt) ELSE 0
        left == cnt - hdr
        tr == offset_translate(p + hdr - size, segs, Len(segs))
        seg == Min(Min(left, MAX_IOREMAP_SIZE), tr.data_left)
    IN IF hdr > 0 /\ left = 0
       THEN [hdr |-> hdr, seg |-> 0, data_left |-> 0, ret |-> hdr]
       ELSE IF tr.data_left = 0
       THEN [hdr |-> hdr, seg |-> 0, data_left |-> 0, ret |-> 0]
       ELSE [hdr |-> hdr, seg |-> seg, data_left |-> tr.data_left,
             ret |-> hdr + seg]

\* a table with a segment larger than MAX_IOREMAP_SIZE, and the cursors and
\* counts one read is tried with
BigTable == << Seg(4096, 2 * MAX_IOREMAP_SIZE, FALSE), Seg(8388608, 500, FALSE) >>
BigSizes == {0, ElfHeaderSize(2)}
BigCursors == {0, 50, ElfHeaderSize(2), ElfHeaderSize(2) + MAX_IOREMAP_SIZE + 7,
               ElfHeaderSize(2) + 2 * MAX_IOREMAP_SIZE - 100,
               ElfHeaderSize(2) + 2 * MAX_IOREMAP_SIZE + 500}
BigCounts == {1, 84, 400, MAX_IOREMAP_SIZE, MAX_IOREMAP_SIZE + 1, 3 * MAX_IOREMAP_SIZE}

\* one read taken alone
FnRead(p, cnt, size) ==
    /\ fn = NoCall
    /\ fn' = [name |-> "ramdump_read", pos |-> p, count |-> cnt,
              elfcore_size |-> size, out |-> ReadSizes(p, cnt, size, BigTable)]
    /\ UNCHANGED << devVars, fileVars, proVars, readVars, frozen, stayed, got,
                    rstate, from0, lastFin, scn, regVars >>

\* the caller's segment array after a call of an entry point on a device with
\* ncons consumers and complete_ramdump = dt: untouched when the call returns
\* for want of consumers, else rewritten if the call asks for it
TableAfter(op, dt, ncons, segs) ==
    IF ncons = 0 THEN segs
    ELSE IF CompleteArg(op, dt) THEN Compact(segs) ELSE segs

\* the first steps of an entry point taken alone
FnTable(op, dt, ncons, segs) ==
    /\ fn = NoCall
    /\ fn' = [name |-> op, complete_ramdump |-> dt, consumers |-> ncons,
              segs |-> segs, out |-> TableAfter(op, dt, ncons, segs)]
    /\ UNCHANGED << devVars, fileVars, proVars, readVars, frozen, stayed, got,
                    rstate, from0, lastFin, scn, regVars >>

NextFn ==
    \/ \E segs \in FnTables, o \in FnOffsets : FnTranslate(segs, o)
    \/ \E op \in Ops, dt \in BOOLEAN, ncons \in 0..1, segs \in SegTables \cup {BigTable} :
          FnTable(op, dt, ncons, segs)
    \/ \E p \in BigCursors, cnt \in BigCounts, size \in BigSizes : FnRead(p, cnt, size)
    \/ \E a \in 0..7, copy_size \in 1..MaxCopy : FnCopy(a, copy_size)
    \/ \E segs \in HdrTables : FnElfHeader(segs)
    \/ \E segs \in HdrTables : FnMinidumpHeader(segs)
    \/ FnReturned

SpecFn == Init /\ [][NextFn]_vars

\* ------------------------------------------------------------ ramdump_poll
\* the runs with poll: one session, the small inputs
ScnPoll == [ScnTwo EXCEPT !.sessions = MaxSessions]

InitPoll == scn = ScnPoll /\ fn = NoCall /\ InitDevice /\ Registered

\* faulty variant: an aborted device is never reported readable
PollMask_UnlessAborted(h) ==
    IF data_ready[h] /\ ~abort_ramdump THEN {"POLLIN", "POLLRDNORM"} ELSE {}

\* if (entry->data_ready) mask |= (POLLIN | POLLRDNORM)
PollMask(h) == IF data_ready[h] THEN {"POLLIN", "POLLRDNORM"} ELSE {}

\* ramdump_poll on an open file: the mask, poll_wait, return mask
ramdump_poll(h) ==
    /\ pc[h] # "closed"
    /\ fn = NoCall
    /\ fn' = [name |-> "ramdump_poll", h |-> h, mask |-> PollMask(h)]
    /\ UNCHANGED << devVars, fileVars, proVars, readVars, frozen, stayed, got,
                    rstate, from0, lastFin, scn, regVars >>

NextPoll ==
    \/ Next
    \/ Running /\ \E h \in Handles : ramdump_poll(h)
    \/ FnReturned

SpecPoll == InitPoll /\ [][NextPoll]_vars

\* ---------------------------------- create_ramdump_device, the registry
\* what every step of create_ramdump_device and destroy_ramdump_device leaves
\* alone: the device the consumers work on
deviceVars == << devVars, fileVars, proVars, readVars, histVars >>

InitCreate == scn = ScnOne /\ fn = NoCall /\ InitDevice /\ InitRegistry

\* create_ramdump_device(dev_name, parent): without a name it returns NULL
\* before it touches the registry
CreateCall(c, named) ==
    /\ creating[c].pc = "idle"
    /\ creating' = [creating EXCEPT ![c] =
                      IF named THEN [@ EXCEPT !.pc = "lock"]
                      ELSE [@ EXCEPT !.pc = "ret", !.ret = "NULL"]]
    /\ UNCHANGED << rd_minor_mutex, ramdump_devnode_inited, rd_minor_id, inits,
                    deviceVars >>

\* mutex_lock(&rd_minor_mutex)
CreateLock(c) ==
    /\ creating[c].pc = "lock"
    /\ rd_minor_mutex = NoOwner
    /\ rd_minor_mutex' = c
    /\ creating' = [creating EXCEPT ![c].pc = "locked"]
    /\ UNCHANGED << ramdump_devnode_inited, rd_minor_id, inits, deviceVars >>

\* if (!ramdump_devnode_inited) ramdump_devnode_init(): alloc_chrdev_region
\* succeeds (ok) or fails; on failure return ERR_PTR(ret), with no
\* mutex_unlock on that path
ramdump_devnode_init(c, ok) ==
    /\ creating[c].pc = "locked"
    /\ ~ramdump_devnode_inited
    /\ IF ok
       THEN /\ ramdump_devnode_inited' = TRUE
            /\ inits' = inits + 1
            /\ creating' = [creating EXCEPT ![c].pc = "unlock"]
       ELSE /\ creating' = [creating EXCEPT ![c] = [@ EXCEPT !.pc = "ret", !.ret = "ERR_PTR"]]
            /\ UNCHANGED << ramdump_devnode_inited, inits >>
    /\ UNCHANGED << rd_minor_mutex, rd_minor_id, deviceVars >>

\* the registry is initialised already: nothing to do under the mutex
CreateInited(c) ==
    /\ creating[c].pc = "locked"
    /\ ramdump_devnode_inited
    /\ creating' = [creating EXCEPT ![c].pc = "unlock"]
    /\ UNCHANGED << rd_minor_mutex, ramdump_devnode_inited, rd_minor_id, inits,
                    deviceVars >>

\* mutex_unlock(&rd_minor_mutex)
CreateUnlock(c) ==
    /\ creating[c].pc = "unlock"
    /\ rd_minor_mutex' = NoOwner
    /\ creating' = [creating EXCEPT ![c].pc = "alloc"]
    /\ UNCHANGED << ramdump_devnode_inited, rd_minor_id, inits, deviceVars >>

\* kzalloc of the device fails: return NULL
CreateNoMem(c) ==
    /\ creating[c].pc = "alloc"
    /\ creating' = [creating EXCEPT ![c] = [@ EXCEPT !.pc = "ret", !.ret = "NULL"]]
    /\ UNCHANGED << rd_minor_mutex, ramdump_devnode_inited, rd_minor_id, inits,
                    deviceVars >>

\* ida_simple_get(&rd_minor_id, 0, RAMDUMP_NUM_DEVICES): the lowest free minor,
\* or none is left: kfree, return ERR_PTR(-ENODEV)
CreateGetMinor(c) ==
    /\ creating[c].pc = "alloc"
    /\ IF Minors \ rd_minor_id = {}
       THEN /\ creating' = [creating EXCEPT ![c] = [@ EXCEPT !.pc = "ret", !.ret = "ERR_PTR"]]
            /\ UNCHANGED rd_minor_id
       ELSE LET minor == CHOOSE m \in Minors \ rd_minor_id :
                            \A k \in Minors \ rd_minor_id : m <= k
            IN /\ rd_minor_id' = rd_minor_id \cup {minor}
               /\ creating' = [creating EXCEPT ![c] = [@ EXCEPT !.pc = "add", !.minor = minor]]
    /\ UNCHANGED << rd_minor_mutex, ramdump_devnode_inited, inits, deviceVars >>

\* device_create or cdev_add fails: ida_simple_remove, kfree, return
\* ERR_PTR(ret)
CreateAddFails(c) ==
    /\ creating[c].pc = "add"
    /\ rd_minor_id' = rd_minor_id \ {creating[c].minor}
    /\ creating' = [creating EXCEPT ![c] =
                      [pc |-> "ret", minor |-> 0 - 1, ret |-> "ERR_PTR"]]
    /\ UNCHANGED << rd_minor_mutex, ramdump_devnode_inited, inits, deviceVars >>

\* device_create and cdev_add succeed: return rd_dev
CreateAdded(c) ==
    /\ creating[c].pc = "add"
    /\ creating' = [creating EXCEPT ![c] = [@ EXCEPT !.pc = "ret", !.ret = "rd_dev"]]
    /\ UNCHANGED << rd_minor_mutex, ramdump_devnode_inited, rd_minor_id, inits,
                    deviceVars >>

\* the caller of create_ramdump_device has taken the result
CreateReturned(c) ==
    /\ creating[c].pc = "ret"
    /\ creating' = [creating EXCEPT ![c] = NotCreating]
    /\ UNCHANGED << rd_minor_mutex, ramdump_devnode_inited, rd_minor_id, inits,
                    deviceVars >>

\* destroy_ramdump_device of a device a create has handed out:
\* ida_simple_remove(&rd_minor_id, minor)
destroy_ramdump_device(minor) ==
    /\ minor \in rd_minor_id
    /\ \A c \in Callers : creating[c].minor # minor
    /\ rd_minor_id' = rd_minor_id \ {minor}
    /\ UNCHANGED << rd_minor_mutex, ramdump_devnode_inited, creating, inits,
                    deviceVars >>

NextCreate ==
    \/ \E c \in Callers, named \in BOOLEAN : CreateCall(c, named)
    \/ \E c \in Callers : CreateLock(c)
    \/ \E c \in Callers, ok \in BOOLEAN : ramdump_devnode_init(c, ok)
    \/ \E c \in Callers : CreateInited(c)
    \/ \E c \in Callers : CreateUnlock(c)
    \/ \E c \in Callers : CreateNoMem(c)
    \/ \E c \in Callers : CreateGetMinor(c)
    \/ \E c \in Callers : CreateAddFails(c)
    \/ \E c \in Callers : CreateAdded(c)
    \/ \E c \in Callers : CreateReturned(c)
    \/ \E minor \in Minors : destroy_ramdump_device(minor)

SpecCreate == InitCreate /\ [][NextCreate]_vars

\* ------------------------------------------------------------- properties
\* the producer's call went through a session and is returning
SessionOver == proPc = "ret" /\ proOutcome \in {"Ok", "Failed", "TimedOut"}

\* the consumers frozen into the session all stayed registered and each read
\* until read() returned 0
AllReadToEnd == frozen # {} /\ stayed /\ \A h \in frozen : rstate[h] = "eof"

\* the header bytes followed by the bytes of the segments in table order
ExpectedStream ==
    LET segs == SegsAfterCompaction(proOp, proSegs) IN
    JoinAll(<< >>,
            (IF NeedsHeader(proOp)
             THEN << HdrChunk(sessionId, 0, HeaderSize(proOp, Len(proSegs))) >>
             ELSE << >>)
            \o [i \in 1..Len(segs) |-> MemChunk(segs[i].address, segs[i].size)])

\* C1: when every consumer registered before the dump reads from cursor 0 until
\* read returns 0, the dump returns 0 and each consumer received the header
\* bytes followed by the segments' bytes in table order
C1_DumpOkAndStreamComplete ==
    (SessionOver /\ AllReadToEnd /\ \A h \in frozen : from0[h])
        => (proRet = 0 /\ \A h \in frozen : got[h] = ExpectedStream)

\* C2: a dump on a device without consumers returns -EPIPE at once, without
\* reaching the completion wait, and leaves every data_ready bit, readers_left,
\* the abort flag, the completion and the header as they were
C2_NoConsumersReturnsAtOnce ==
    [][(proPc = "idle" /\ consumers = 0 /\ proPc' # "idle")
          => /\ proPc' = "ret"
             /\ proRet' = 0 - EPIPE
             /\ proOutcome' = "NoConsumers"
             /\ UNCHANGED << data_ready, readers_left, abort_ramdump, done,
                             elfcore_size, elfcore_buf, lock >>]_vars

\* C2, its case: a dump has returned -EPIPE for want of consumers
C2_Witness == proPc = "ret" /\ proOutcome = "NoConsumers" /\ consumers = 0

\* a consumer registered now that is not one of those the running session froze
Late(h) ==
    /\ pc[h] # "closed"
    /\ h \notin frozen
    /\ proPc \in {"flags", "reinit", "setcnt", "wait", "sync", "ret"}
    /\ proOutcome \notin {"NoConsumers", "NoMem"}

\* what holds of a late consumer in every state: not marked ready, nothing
\* received, never inside the copy; while the producer waits its read() has not
\* passed the readiness check, and later it can only fail with -ETIME
LateKeptOut(h) ==
    /\ ~data_ready[h]
    /\ got[h] = << >>
    /\ rstate[h] = "none"
    /\ pc[h] \in {"idle", "ret", "woken", "reset", "dec"}
    /\ proPc \in {"flags", "reinit", "setcnt", "wait"} => pc[h] \in {"idle", "ret"}
    /\ pc[h] = "ret" => ret[h] \in {0 - EAGAIN, 0 - ERESTARTSYS}
    /\ pc[h] \in {"reset", "dec"} => ret[h] = 0 - ETIME

\* C3: a consumer that opens after the dump froze the consumer set is kept out
\* of the session: the session never sets its data_ready, readers_left is set to
\* the number of frozen consumers, it receives no bytes (its read blocks,
\* returns -EAGAIN or fails), and data_ready is set only by the marking step of
\* a dump, which marks every consumer registered then
C3_LateConsumerWaitsForNextDump ==
    [][/\ \A h \in Handles : Late(h)' => LateKeptOut(h)'
       /\ (proPc = "setcnt" /\ proPc' = "wait") => readers_left' = Cardinality(frozen)
       /\ \A h \in Handles :
            (~data_ready[h] /\ data_ready'[h])
                => (proPc = "mark" /\ proPc' = "flags" /\ h \in consumer_list)
       /\ (proPc = "mark" /\ proPc' = "flags")
            => \A h \in consumer_list : data_ready'[h] /\ h \in frozen']_vars

\* C3, its case: in the second session a late consumer has been told -EAGAIN
\* while the producer waits for the frozen ones
C3_Witness ==
    /\ sessionId = MaxSessionsTwo
    /\ proPc = "wait"
    /\ \E h \in Handles : Late(h) /\ pc[h] = "ret" /\ ret[h] = 0 - EAGAIN

\* C4: whatever happened in an earlier session, a later dump whose consumers
\* all read until read returns 0 returns 0
C4_NextDumpOk ==
    (SessionOver /\ sessionId > 1 /\ AllReadToEnd) => proRet = 0

\* C5: whenever a dump returns, the device holds no header (buffer absent, size
\* 0) and the segment table installed for the session is cleared
C5_NothingHeldAtReturn ==
    proPc = "ret" =>
        /\ elfcore_buf = NULL
        /\ elfcore_size = 0
        /\ nsegments = 0
        /\ segments = << >>

\* the readers inside a read-side critical section
InCriticalSection == { h \in Handles : pc[h] \in {"cs", "oops"} }

\* C6: the timeout sets abort_ramdump; the header stays as it is and the dump
\* does not return while a reader is inside its read-side critical section;
\* a read that takes the read-side lock with abort_ramdump set fails with -ETIME
\* and touches neither header nor segments
C6_TimeoutWaitsForReaders ==
    [][/\ (proPc = "wait" /\ proPc' = "sync") => abort_ramdump'
       /\ proPc' = "sync" => abort_ramdump'
       /\ srcu_held' = Cardinality(InCriticalSection')
       /\ (proPc = "sync" /\ proPc' = "sync")
            => UNCHANGED << elfcore_size, elfcore_buf, nsegments, segments >>
       /\ (proPc = "sync" /\ proPc' # "sync")
            => (InCriticalSection = {} /\ proPc' = "ret" /\ proRet' = 0 - EPIPE)
       /\ \A h \in Handles :
            (pc[h] = "woken" /\ abort_ramdump /\ pc'[h] # "woken")
                => /\ pc'[h] = "reset"
                   /\ ret'[h] = 0 - ETIME
                   /\ UNCHANGED << got, srcu_held, elfcore_size, elfcore_buf >>]_vars

\* C6, its case: the wait has timed out while a reader is inside the copy
C6_Witness == proPc = "sync" /\ abort_ramdump /\ \E h \in Handles : pc[h] = "cs"

\* C7: when the wait ends by completion, the dump returns 0 exactly when the
\* consumer that finished last reported a clean end of stream
C7_OkIffLastFinisherClean ==
    (proPc = "ret" /\ proOutcome \in {"Ok", "Failed"})
        => (proRet = 0 <=> lastFin = "eof")

\* every consumer frozen into the session has gone through reset_ramdump_entry
\* or has been closed
AllFinishedOrClosed ==
    \A h \in frozen : ~data_ready[h] /\ pc[h] \notin {"reset", "dec"}

\* C8: close decrements readers_left exactly when the consumer's data_ready is
\* still true; hence once every frozen consumer has finished or been closed the
\* producer's wait can end by completion
C8_CloseKeepsCountExact ==
    [][/\ \A h \in Handles :
            (pc[h] = "idle" /\ pc'[h] = "closed")
                => readers_left' = (IF data_ready[h] THEN readers_left - 1 ELSE readers_left)
       /\ (proPc' = "wait" /\ AllFinishedOrClosed') => done' > 0]_vars

\* C9: a read that finds abort_ramdump set fails with -ETIME and clears the
\* consumer's data_ready, and it goes on to decrement readers_left only for a
\* consumer that has not been through reset_ramdump_entry yet, which is one
\* whose data_ready is still true
C9_AbortedReadDecrementsOnce ==
    [][\A h \in Handles :
        /\ (pc[h] = "woken" /\ abort_ramdump /\ pc'[h] # "woken")
              => (pc'[h] = "reset" /\ ret'[h] = 0 - ETIME)
        /\ (pc[h] = "reset" /\ pc'[h] = "dec") => ~data_ready'[h]
        /\ (pc[h] = "reset" /\ pc'[h] = "dec" /\ ret[h] = 0 - ETIME) => data_ready[h]
        /\ (pc[h] = "dec" /\ pc'[h] = "idle") => readers_left' = readers_left - 1]_vars

\* C10: a read with O_NONBLOCK on a consumer whose data_ready is false returns
\* -EAGAIN and changes nothing of the consumer or the device; a read passes the
\* readiness wait only when data_ready or abort_ramdump is true
C10_ReadinessCheck ==
    [][\A h \in Handles :
        /\ (pc[h] = "idle" /\ pc'[h] = "ret" /\ ret'[h] = 0 - EAGAIN)
              => /\ f_nonblock'[h] /\ ~data_ready[h]
                 /\ UNCHANGED << devVars, data_ready, pos >>
        /\ (pc[h] = "idle" /\ pc'[h] \notin {"idle", "closed"} /\ f_nonblock'[h] /\ ~data_ready[h])
              => (pc'[h] = "ret" /\ ret'[h] = 0 - EAGAIN)
        /\ (pc[h] = "idle" /\ pc'[h] = "woken")
              => (data_ready[h] \/ abort_ramdump)
        /\ (pc[h] = "idle" /\ pc'[h] \notin {"idle", "closed", "woken"})
              => (pc'[h] = "ret" /\ ret'[h] \in {0 - EAGAIN, 0 - ERESTARTSYS}
                  /\ UNCHANGED << devVars, data_ready, pos >>)]_vars

\* C10, its case: a non-blocking read has returned -EAGAIN during a session
\* although the device is aborted
C10_Witness ==
    \E h \in Handles :
        pc[h] = "ret" /\ ret[h] = 0 - EAGAIN /\ f_nonblock[h] /\ abort_ramdump

\* C11: a read whose copy to the caller's buffer fails, in the header part or
\* in the segment part, returns -EFAULT, marks the session failed, resets the
\* cursor to 0 and releases the consumer as at end of stream: data_ready
\* cleared, readers_left decremented once
C11_CopyFaultFailsSession ==
    [][\A h \in Handles :
        /\ (pc[h] = "cs" /\ pc'[h] = "reset" /\ ret'[h] = 0 - EFAULT)
              => (ramdump_status' = 0 - 1 /\ pos'[h] = 0)
        /\ (pc[h] = "reset" /\ pc'[h] # "reset")
              => (pc'[h] = "dec" /\ ~data_ready'[h] /\ ret'[h] = ret[h])
        /\ (pc[h] = "dec" /\ pc'[h] # "dec")
              => (pc'[h] = "idle" /\ readers_left' = readers_left - 1)]_vars

\* the sum of the sizes of the first n segments of a table
RECURSIVE SumSizes(_, _)
SumSizes(segs, n) == IF n = 0 THEN 0 ELSE SumSizes(segs, n - 1) + segs[n].size

\* the consumer's cursor is at or beyond the end of the stream the device holds
AtOrPastEnd(h) == pos[h] >= elfcore_size + SumSizes(segments, nsegments)

HoldsOffset(segs, i, o, r) ==
    /\ r = o - SumSizes(segs, i - 1)
    /\ r >= 0
    /\ r < segs[i].size

\* C13: for an offset below the sum of the sizes, offset_translate yields the
\* one segment i and offset r in it with (sizes before i) + r = o and r < size_i,
\* returns address_i + r and data_left = size_i - r; for an offset at or beyond
\* the sum it yields data_left = 0
C13_OffsetTranslation ==
    fn.name = "offset_translate" =>
        LET segs == fn.segs
            n == Len(segs)
            o == fn.o
            hits == { i \in 1..n : HoldsOffset(segs, i, o, o - SumSizes(segs, i - 1)) }
        IN IF o < SumSizes(segs, n)
           THEN /\ Cardinality(hits) = 1
                /\ \A i \in hits :
                     /\ fn.out.addr = segs[i].address + (o - SumSizes(segs, i - 1))
                     /\ fn.out.data_left = segs[i].size - (o - SumSizes(segs, i - 1))
           ELSE fn.out.data_left = 0

\* C13, its case: sizes 10 and 20, offset 15: byte 5 of the second segment, 15
\* bytes left
C13_Witness ==
    /\ fn.name = "offset_translate"
    /\ Len(fn.segs) = 2 /\ fn.segs[1].size = 10 /\ fn.segs[2].size = 20
    /\ fn.o = 15
    /\ fn.out.addr = fn.segs[2].address + 5
    /\ fn.out.data_left = 15

\* where the stream that read serves holds the first byte of segment i: after
\* the header and the segments before i
RECURSIVE StreamStart(_, _, _)
StreamStart(size, segs, i) ==
    IF i = 1 THEN U64(0, size)
    ELSE AddU64(StreamStart(size, segs, i - 1), segs[i - 1].size)

\* C14: for every segment table the offsets and sizes the ELF32 header declares
\* agree with the stream: segment i is declared at the offset where its bytes
\* are served, with its size and its address, also for addresses and sizes that
\* do not fit 32 bits
C14_HeaderAgreesWithStream ==
    fn.name = "_do_ramdump" =>
        \A i \in 1..Len(fn.segs) :
            /\ fn.out.phdr[i].p_offset = StreamStart(fn.out.elfcore_size, fn.segs, i)
            /\ fn.out.phdr[i].p_filesz = fn.segs[i].size
            /\ fn.out.phdr[i].p_paddr = fn.segs[i].address

\* C15: the ELF32 header block is one file header and exactly N program
\* headers in segment order, e_phnum = N, each PT_LOAD with flags R|W|X,
\* p_vaddr = p_paddr = address, p_filesz = p_memsz = size, p_offset = header
\* size + the sizes of the segments before
C15_Elf32Layout ==
    fn.name = "_do_ramdump" =>
        LET N == Len(fn.segs) IN
        /\ fn.out.elfcore_size = SizeofElf32Ehdr + N * SizeofElf32Phdr
        /\ fn.out.ehdr.e_phoff = SizeofElf32Ehdr
        /\ fn.out.ehdr.e_phnum = N
        /\ Len(fn.out.phdr) = N
        /\ \A i \in 1..N :
             /\ fn.out.phdr[i].p_type = "PT_LOAD"
             /\ fn.out.phdr[i].p_flags = {"PF_R", "PF_W", "PF_X"}
             /\ fn.out.phdr[i].p_vaddr = fn.segs[i].address
             /\ fn.out.phdr[i].p_paddr = fn.segs[i].address
             /\ fn.out.phdr[i].p_filesz = fn.segs[i].size
             /\ fn.out.phdr[i].p_memsz = fn.segs[i].size
             /\ fn.out.phdr[i].p_offset = StreamStart(fn.out.elfcore_size, fn.segs, i)

\* C16: the minidump header block is the file header, exactly N + 2 section
\* headers and a string table of 512 bytes: section 0 is zero, section 1 is
\* SHT_STRTAB at the end of the section headers with size 512, section i + 2
\* is SHT_PROGBITS with SHF_WRITE, the address and size of segment i and the
\* offset header size + the sizes of the segments before; e_shnum = N + 2 and
\* e_shstrndx = 1
C16_MinidumpLayout ==
    fn.name = "_do_minidump" =>
        LET N == Len(fn.segs)
            hdrs == SizeofElfhdr + SizeofElfShdr * (N + 2)
        IN /\ fn.out.elfcore_size = hdrs + MAX_STRTBL_SIZE
           /\ fn.out.ehdr.e_shoff = SizeofElfhdr
           /\ fn.out.ehdr.e_shnum = N + 2
           /\ fn.out.ehdr.e_shstrndx = 1
           /\ Len(fn.out.shdr) = N + 2
           /\ fn.out.shdr[1] = ZeroShdr
           /\ fn.out.shdr[2].sh_type = "SHT_STRTAB"
           /\ fn.out.shdr[2].sh_offset = U64(0, hdrs)
           /\ fn.out.shdr[2].sh_size = U64(0, 512)
           /\ \A i \in 1..N :
                /\ fn.out.shdr[i + 2].sh_type = "SHT_PROGBITS"
                /\ fn.out.shdr[i + 2].sh_flags = {"SHF_WRITE"}
                /\ fn.out.shdr[i + 2].sh_addr = fn.segs[i].address
                /\ fn.out.shdr[i + 2].sh_size = fn.segs[i].size
                /\ fn.out.shdr[i + 2].sh_offset
                      = StreamStart(fn.out.elfcore_size, fn.segs, i)

\* C16, its case: a table of three segments with an address and a size beyond
\* 32 bits has been laid out
C16_Witness ==
    /\ fn.name = "_do_minidump"
    /\ Len(fn.segs) = 3
    /\ fn.segs[1].address = U64(1, 4096)
    /\ fn.out.shdr[3].sh_addr = U64(1, 4096)
    /\ fn.out.shdr[5].sh_offset = U64(1, 64 + 64 * 5 + 512 + 16 + 8)

\* C17: for every segment with a name, of any length, sh_name points into the
\* string table at a NUL-terminated string that is the first min(len, 15)
\* characters of the name
C17_NameInStringTable ==
    fn.name = "_do_minidump" =>
        \A i \in 1..Len(fn.segs) :
            fn.segs[i].name.ptr # NULL =>
                LET k == fn.out.shdr[i + 2].sh_name
                    chars == fn.segs[i].name.chars
                    m == Min(Len(chars), MAX_NAME_LENGTH - 1)
                IN /\ k + m < MAX_STRTBL_SIZE
                   /\ \A j \in 1..m : StrAt(fn.out.strtab, k + j - 1) = chars[j]
                   /\ StrAt(fn.out.strtab, k + m) = 0

\* a step of consumer h's read that fails on a destination fault or on a mapping
\* or allocation failure (the jump to ramdump_done and the two halves of
\* reset_ramdump_entry after it), or the close of h
FailsOrCloses(h) ==
    \/ pc[h] = "cs" /\ pc'[h] = "reset" /\ ret'[h] \in {0 - EFAULT, 0 - ENOMEM}
    \/ pc[h] \in {"reset", "dec"} /\ pc'[h] # pc[h] /\ ret[h] \in {0 - EFAULT, 0 - ENOMEM}
    \/ pc[h] = "idle" /\ pc'[h] = "closed"

\* C18: a consumer's failing read or close never sets the abort flag and never
\* changes another consumer's data_ready, cursor or call in flight; the abort
\* flag is raised only by the producer's timeout, and a read fails with -ETIME
\* only when the abort flag is set
C18_FailureStaysLocal ==
    [][/\ (abort_ramdump' /\ ~abort_ramdump) => (proPc = "wait" /\ proPc' = "sync")
       /\ \A h \in Handles :
            FailsOrCloses(h) =>
               /\ abort_ramdump' = abort_ramdump
               /\ \A g \in Handles \ {h} :
                    /\ data_ready'[g] = data_ready[g]
                    /\ pos'[g] = pos[g]
                    /\ pc'[g] = pc[g]
                    /\ ret'[g] = ret[g]
       /\ \A g \in Handles :
            (pc[g] = "woken" /\ pc'[g] = "reset") =>
               (abort_ramdump /\ ret'[g] = 0 - ETIME)]_vars

\* C18, its case: h's read of the session has failed and released h while the
\* session goes on unaborted, and g has read the whole stream after it
C18_Witness ==
    \E h \in frozen, g \in frozen :
        /\ h # g
        /\ proPc = "wait" /\ ~abort_ramdump
        /\ rstate[h] = "bad" /\ pc[h] = "idle" /\ ~data_ready[h]
        /\ ramdump_status = 0
        /\ pc[g] = "reset" /\ ret[g] = 0 /\ got[g] = ExpectedStream
        /\ Len(proSegs) > 1

\* C19: poll reports a consumer readable exactly when its data_ready is true,
\* on every query and whatever the abort flag is, and a query changes nothing
\* of the consumer or the device
C19_PollIsLevelTriggered ==
    [][fn'.name = "ramdump_poll" =>
          /\ (fn'.mask = {"POLLIN", "POLLRDNORM"}) = data_ready[fn'.h]
          /\ (fn'.mask = {}) = ~data_ready[fn'.h]
          /\ data_ready' = data_ready
          /\ abort_ramdump' = abort_ramdump]_vars

\* C19, its case: a consumer that is data_ready on an aborted device is polled
\* and reported readable
C19_Witness ==
    /\ fn.name = "ramdump_poll"
    /\ data_ready[fn.h]
    /\ abort_ramdump
    /\ fn.mask = {"POLLIN", "POLLRDNORM"}

\* the producer is inside a session: between taking consumer_lock with
\* consumers present and its return
InSession == proPc \in {"mark", "flags", "reinit", "setcnt", "wait", "sync"}

\* the segment table and the header of the producer's session are installed
TableInstalled ==
    /\ segments = SegsAfterCompaction(proOp, proSegs)
    /\ nsegments = Len(proSegs)
HeaderInstalled ==
    NeedsHeader(proOp) =>
        /\ elfcore_buf = sessionId
        /\ elfcore_size = HeaderSize(proOp, Len(proSegs))

\* atomic_set(&rd_dev->readers_left, ...) of the producer's session has run
CountSet == proPc \in {"wait", "sync"}

\* C20: whenever a consumer's data_ready is true and the abort flag is false
\* during a session, the segment table, the header buffer and the header size
\* of the session are installed and the outstanding-reader count has been set
C20_ReadyMeansInitialised ==
    \A h \in consumer_list :
        (InSession /\ data_ready[h] /\ ~abort_ramdump) =>
            (TableInstalled /\ HeaderInstalled /\ CountSet)

\* wait_for_completion_timeout returns with the completion in this step
WaitReturnsCompleted == proPc = "wait" /\ proPc' = "ret"

\* C21: when the producer's wait returns with the completion, no consumer
\* frozen into the session still has data_ready set and no reader is inside
\* the read-side critical section
C21_CompletionOnlyAfterAllFinished ==
    [][WaitReturnsCompleted =>
          /\ \A h \in frozen : ~data_ready[h]
          /\ \A h \in Handles : pc[h] # "cs"]_vars

\* C22: no finish is lost: the producer's wait ends by timeout only while some
\* consumer frozen into the session has not finished; once all of them have
\* finished or closed, also one that read to the end of the stream before the
\* producer set the count, the wait ends by completion
C22_NoFinishLost ==
    [][(proPc = "wait" /\ proPc' = "sync") => ~AllFinishedOrClosed]_vars

\* the producer releases consumer_lock at the end of the session set-up
SetupUnlocks == proPc = "setcnt" /\ proPc' = "wait"

\* C23: when the producer releases consumer_lock after the set-up, data_ready
\* is true for exactly the registered consumers, abort_ramdump is false,
\* readers_left is the number of registered consumers, the completion is reset
\* and every registered consumer's wait condition holds (all are woken)
C23_StateAtSetupUnlock ==
    [][SetupUnlocks =>
          /\ \A h \in Handles : data_ready'[h] = (h \in consumer_list')
          /\ ~abort_ramdump'
          /\ readers_left' = Cardinality(consumer_list')
          /\ readers_left' = consumers'
          /\ done' = 0
          /\ lock' = "free"
          /\ \A h \in consumer_list' : WaitCondition(h)']_vars

\* C24: the producer holds consumer_lock only during the set-up, never while
\* it waits for the completion or for synchronize_srcu nor after a return, so
\* while a session is in progress a consumer can be opened and an idle consumer
\* can be closed
C24_LockNotHeldAcrossWait ==
    /\ lock = "producer" <=> proPc \in {"mark", "flags", "reinit", "setcnt"}
    /\ proPc \in {"idle", "wait", "sync", "ret"} => lock = "free"
    /\ (proPc \in {"wait", "sync"} /\ Running) =>
          \A h \in Handles :
              /\ pc[h] = "idle" => ENABLED ramdump_release(h)
              /\ FreshEntry(h) => ENABLED ramdump_open(h)

\* C24, its case: while the producer waits, a consumer that was not frozen into
\* the session is registered and a frozen one has been closed
C24_Witness ==
    /\ proPc = "wait"
    /\ lock = "free"
    /\ ~stayed
    /\ \E h \in consumer_list : h \notin frozen /\ pc[h] = "idle"

\* C25: a read holds the read-side lock of SRCU from srcu_read_lock to its
\* return and releases it exactly once on every way out; a read that returns
\* before srcu_read_lock (-EAGAIN, interrupted wait) and the two halves of
\* reset_ramdump_entry leave it alone; it is held by nobody when no read is in
\* progress
C25_SrcuBalanced ==
    [][/\ \A h \in Handles :
            /\ (pc[h] = "woken" /\ pc'[h] = "cs") => srcu_held' = srcu_held + 1
            /\ (pc[h] = "woken" /\ pc'[h] = "reset") => srcu_held' = srcu_held
            /\ (pc[h] = "cs" /\ pc'[h] \in {"idle", "reset"}) => srcu_held' = srcu_held - 1
            /\ (pc[h] = "cs" /\ pc'[h] \notin {"cs", "idle", "reset"}) => pc'[h] = "oops"
            /\ (pc[h] \in {"idle", "ret", "reset", "dec", "closed"} /\ pc'[h] # pc[h])
                  => srcu_held' = srcu_held
       /\ srcu_held' >= 0
       /\ (\A h \in Handles : pc'[h] \in {"idle", "closed"}) => srcu_held' = 0]_vars

\* C25, its case: one consumer's read returned after a copy, the other's is
\* leaving on a mapping or allocation failure, and the lock is held by nobody
C25_Witness ==
    /\ srcu_held = 0
    /\ \E h \in Handles, g \in Handles :
          /\ pc[h] = "reset" /\ ret[h] = 0 - ENOMEM
          /\ pc[g] = "idle" /\ rstate[g] = "part"

\* a phase stays inside a chunk of n bytes: it starts and ends within it
WithinChunk(p, n) ==
    /\ p.len[2] = 0 /\ p.len[3] = 0 /\ p.len[4] = 0
    /\ p.dst[2] = 0 /\ p.dst[3] = 0 /\ p.dst[4] = 0
    /\ p.dst[1] + p.len[1] <= n

\* C26: for every alignment of the source and every chunk length >= 1, also
\* one shorter than the bytes up to the next 8-byte boundary, the three phases
\* copy copy_size bytes in all, one after the other and in order, none outside
\* the chunk, and the bulk phase starts at a multiple of 8 and has a length
\* that is a multiple of 8
C26_AlignedCopyCoversChunk ==
    fn.name = "ramdump_read copy" =>
        LET o == fn.out
            n == fn.copy_size
        IN /\ WithinChunk(o.head, n) /\ WithinChunk(o.middle, n) /\ WithinChunk(o.tail, n)
           /\ o.head.len[1] + o.middle.len[1] + o.tail.len[1] = n
           /\ o.head.src = fn.device_mem /\ o.head.dst = U64(0, 0)
           /\ o.middle.src = AddU64(o.head.src, o.head.len)
           /\ o.middle.dst = AddU64(o.head.dst, o.head.len)
           /\ o.tail.src = AddU64(o.middle.src, o.middle.len)
           /\ o.tail.dst = AddU64(o.middle.dst, o.middle.len)
           /\ Low3(o.middle.len) = 0
           /\ o.middle.len # U64(0, 0) => Low3(o.middle.src) = 0

\* C27: one read returns at most MAX_IOREMAP_SIZE bytes and at most count
\* bytes, and its segment part ends within the segment the cursor falls in,
\* also when the read starts inside the header and goes on into a segment
C27_ReadIsOneChunk ==
    fn.name = "ramdump_read" =>
        /\ fn.out.ret <= MAX_IOREMAP_SIZE
        /\ fn.out.ret <= fn.count
        /\ fn.out.seg <= fn.out.data_left

\* the call asks for the sizes to be rewritten
CompactionRequested ==
    fn.name \in {"do_ramdump", "do_elf_ramdump"} /\ fn.complete_ramdump

\* C28: when compaction is requested the size of every segment but the last
\* becomes the distance to the next segment's address and the last size and
\* every address stay; when it is not requested (device without
\* complete_ramdump, do_minidump, do_minidump_elf32) the table stays as given;
\* a call that fails for want of consumers never rewrites the table
C28_CompactionRewritesSizes ==
    fn.name \in Ops =>
        LET N == Len(fn.segs) IN
        /\ Len(fn.out) = N
        /\ \A i \in 1..N : fn.out[i].address = fn.segs[i].address
        /\ fn.consumers = 0 => fn.out = fn.segs
        /\ (fn.consumers > 0 /\ ~CompactionRequested) => fn.out = fn.segs
        /\ (fn.consumers > 0 /\ CompactionRequested) =>
              /\ \A i \in 1..(N - 1) :
                    fn.out[i].size = fn.segs[i + 1].address - fn.segs[i].address
              /\ N > 0 => fn.out[N].size = fn.segs[N].size

\* C28, its case: a full-capture dump of two segments has changed the first
\* size from 500 to the 1024 bytes up to the second address
C28_Witness ==
    /\ fn.name = "do_elf_ramdump"
    /\ fn.complete_ramdump /\ fn.consumers > 0
    /\ Len(fn.segs) = 2
    /\ fn.segs[1].size = 500 /\ fn.out[1].size = 1024
    /\ fn.out[2].size = 300

\* the entries of the string table in the order they were stored: where each
\* starts and how long the name given was
RECURSIVE SegEntries(_, _, _)
SegEntries(segs, shdr, i) ==
    IF i > Len(segs) THEN << >>
    ELSE (IF segs[i].name.ptr = NULL THEN << >>
          ELSE << [at |-> shdr[i + 2].sh_name, len |-> Len(segs[i].name.chars)] >>)
         \o SegEntries(segs, shdr, i + 1)
StrEntries(segs, shdr) ==
    << [at |-> shdr[2].sh_name, len |-> Len(StrTblName.chars)] >>
    \o SegEntries(segs, shdr, 1)

\* C29: the entries of the string table are packed: the first starts at index
\* 1 and each next one starts one byte after the terminator of the stored,
\* possibly truncated, string before it, for names of every length
C29_StringTablePacked ==
    fn.name = "_do_minidump" =>
        LET e == StrEntries(fn.segs, fn.out.shdr) IN
        /\ e[1].at = 1
        /\ \A k \in 1..(Len(e) - 1) :
              e[k + 1].at = e[k].at + Min(e[k].len, MAX_NAME_LENGTH - 1) + 1

\* the producer frees the header and returns in this step
FreesHeader == proPc \in {"wait", "sync"} /\ proPc' = "ret"

\* C30: the header is never used after it is freed: when the producer frees
\* it, after a completion as after a timeout, no reader is inside the
\* read-side critical section, and no reader ever copies header bytes from a
\* buffer that is no longer there
C30_NoHeaderUseAfterFree ==
    [][/\ FreesHeader => \A h \in Handles : pc[h] # "cs"
       /\ \A h \in Handles : pc'[h] # "oops"]_vars

\* C31: readers_left is never negative, also after a session that timed out,
\* while abort_ramdump stays set and consumers go on calling read
C31_ReadersLeftNotNegative == readers_left >= 0

\* a read that saw the abort flag of the previous session is at the second half
\* of reset_ramdump_entry while the next session, which has cleared the flag, is
\* being set up or waited for
LateFinisher(h) ==
    /\ pc[h] = "dec"
    /\ ret[h] = 0 - ETIME
    /\ InSession
    /\ ~abort_ramdump

\* C32: sessions are isolated: the late finish of a read aborted by the previous
\* session does not decrement the readers_left the new session has set, does
\* not signal the completion the new session has re-initialised, and does not
\* leave the consumer data_ready with its slot already counted as finished
C32_SessionsIsolated ==
    [][\A h \in Handles :
        (LateFinisher(h) /\ pc'[h] = "idle")
            => /\ CountSet => readers_left' = readers_left
               /\ proPc \in {"setcnt", "wait"} => done' = done
               /\ ~(CountSet /\ data_ready'[h])]_vars

\* C33: every consumer frozen into a session had its cursor at 0 when the
\* session marked it ready, also one that read part of a previous session which
\* timed out and made no read in between
C33_CursorZeroAtSessionStart == \A h \in frozen : from0[h]

\* C34: an open made while a session is in progress leaves ramdump_status as
\* the session recorded it, so a consumer that takes no part cannot change what
\* the dump returns
C34_LateOpenKeepsStatus ==
    [][\A h \in Handles :
        (InSession /\ pc[h] = "closed" /\ pc'[h] = "idle")
            => ramdump_status' = ramdump_status]_vars

\* C35: during a raw dump the header size readers see is 0, whatever dumps came
\* before on the device (also one that failed with -ENOMEM), and whenever
\* elfcore_size is not 0 the header buffer is allocated
C35_RawDumpHasNoHeader ==
    /\ (InSession /\ ~NeedsHeader(proOp)) => elfcore_size = 0
    /\ elfcore_size # 0 => elfcore_buf # NULL

\* the read in progress has header bytes to copy: *pos < elfcore_size
CopiesHeader(h) == pos[h] < elfcore_size

\* C36: the value a read returns is the number of bytes it delivered: a read
\* that returns 0 and resets the cursor has copied no header byte in the same
\* call, also when the count reaches past the header and the segments hold no
\* data
C36_ReturnCountsDeliveredBytes ==
    [][\A h \in Handles :
        (pc[h] = "cs" /\ pc'[h] = "reset" /\ ret'[h] = 0) => ~CopiesHeader(h)]_vars

\* C37: building the minidump header writes no byte of a name at or beyond
\* MAX_STRTBL_SIZE, for every number of segments and every name length, and
\* every sh_name stored in a section header is below MAX_STRTBL_SIZE
C37_StringTableWritesInBounds ==
    fn.name = "_do_minidump" =>
        /\ DOMAIN fn.out.spill = {}
        /\ \A i \in 1..Len(fn.out.shdr) : fn.out.shdr[i].sh_name < MAX_STRTBL_SIZE

\* the consumers frozen into the session whose data_ready is still true
StillReady == { h \in frozen : data_ready[h] }

\* C38: while the producer waits for the completion, readers_left is the number
\* of frozen consumers whose data_ready is still true, at every point where no
\* consumer is between the two halves of its finish
C38_CountMatchesReadyConsumers ==
    (proPc = "wait" /\ \A h \in Handles : pc[h] # "dec")
        => readers_left = Cardinality(StillReady)

\* C39: create_ramdump_device releases rd_minor_mutex on every return path,
\* also when the first-use initialisation of the registry fails, so that a
\* caller that has returned never owns the mutex and a later call can take it;
\* and ramdump_devnode_init succeeds at most once
C39_RegistryMutexReleased ==
    /\ \A c \in Callers : creating[c].pc \in {"idle", "ret"} => rd_minor_mutex # c
    /\ inits <= 1

====
